---- MODULE Spec2Model ----
(***************************************************************************)
(* Model of the vite-convert-pug-in-html plugin (src/src/index.ts).        *)
(*                                                                         *)
(* Paths, URLs and alias patterns are character strings; the path and      *)
(* string functions of Node (resolve, dirname, extname, normalize,         *)
(* startsWith, endsWith, includes, slice, replace) are computed character  *)
(* by character.  The file system is the set of paths of existing files.   *)
(***************************************************************************)
EXTENDS Integers, Sequences, FiniteSets, TLC

VARIABLES
  files,          \* the file system: set of paths of existing files
  viteRoot,       \* viteConfig.root, NoValue until configResolved ran
  viteAliases,    \* viteAliases: sequence of [find, replacement]
  htmlToPugMap,   \* htmlToPugMap: function virtual html path -> pug path
  rollupInput,    \* value returned by the last config(): key -> html path
  allPugFiles,    \* allPugFiles of the last config(), in processing order
  options,        \* the options object the plugin was constructed with
  out             \* observable effects of the most recent hook/function call

vars == <<files, viteRoot, viteAliases, htmlToPugMap, rollupInput,
          allPugFiles, options, out>>

NoValue == "<undefined>"

\* an object without properties, a Map without entries
EmptyMap == [x \in {} |-> NoValue]

(***************************************************************************)
(* String primitives                                                       *)
(***************************************************************************)
CharAt(s, i) == SubSeq(s, i, i)

StartsWith(s, p) == Len(s) >= Len(p) /\ SubSeq(s, 1, Len(p)) = p

EndsWith(s, p) == Len(s) >= Len(p) /\ SubSeq(s, Len(s) - Len(p) + 1, Len(s)) = p

Includes(s, p) == \E i \in 1..(Len(s) - Len(p) + 1) : SubSeq(s, i, i + Len(p) - 1) = p

\* s.slice(n) for n >= 0
SliceFrom(s, n) == SubSeq(s, n + 1, Len(s))

\* s.slice(0, -n) for n > 0
SliceDropLast(s, n) == SubSeq(s, 1, Len(s) - n)

\* index of the last occurrence of the character c in s, 0 if none
LastIndexOf(s, c) ==
  LET hits == {i \in 1..Len(s) : CharAt(s, i) = c}
  IN  IF hits = {} THEN 0 ELSE CHOOSE i \in hits : \A j \in hits : j <= i

\* index of the first occurrence of the character c in s, 0 if none
IndexOf(s, c) ==
  LET hits == {i \in 1..Len(s) : CharAt(s, i) = c}
  IN  IF hits = {} THEN 0 ELSE CHOOSE i \in hits : \A j \in hits : i <= j

\* s.split(c), as a sequence of strings
RECURSIVE Split(_, _)
Split(s, c) ==
  LET i == IndexOf(s, c)
  IN  IF i = 0 THEN <<s>>
      ELSE <<SubSeq(s, 1, i - 1)>> \o Split(SubSeq(s, i + 1, Len(s)), c)

\* segs.join(c)
RECURSIVE Join(_, _)
Join(segs, c) ==
  IF segs = <<>> THEN ""
  ELSE IF Len(segs) = 1 THEN segs[1]
  ELSE segs[1] \o c \o Join(Tail(segs), c)

(***************************************************************************)
(* Node's path module (POSIX flavour) and Vite's normalizePath             *)
(***************************************************************************)
\* process.cwd()
Cwd == "/r"

\* normalizeString of Node's path: drops "" and "." segments and lets ".."
\* remove the segment before it; above the start, ".." is kept only for a
\* relative path (allowAbove).
RECURSIVE NormSegs(_, _, _)
NormSegs(segs, acc, allowAbove) ==
  IF segs = <<>> THEN acc
  ELSE LET h == Head(segs)
           t == Tail(segs)
       IN  IF h = "" \/ h = "." THEN NormSegs(t, acc, allowAbove)
           ELSE IF h = ".." THEN
                  IF acc # <<>> /\ acc[Len(acc)] # ".."
                    THEN NormSegs(t, SubSeq(acc, 1, Len(acc) - 1), allowAbove)
                  ELSE IF allowAbove THEN NormSegs(t, Append(acc, ".."), allowAbove)
                  ELSE NormSegs(t, acc, allowAbove)
           ELSE NormSegs(t, Append(acc, h), allowAbove)

\* path.normalize(p)
Normalize(p) ==
  IF p = "" THEN "."
  ELSE LET isAbs == StartsWith(p, "/")
           trailing == EndsWith(p, "/")
           body == Join(NormSegs(Split(p, "/"), <<>>, ~isAbs), "/")
           withDot == IF body = "" /\ ~isAbs THEN "." ELSE body
           withSep == IF body # "" /\ trailing THEN withDot \o "/" ELSE withDot
       IN  IF isAbs THEN "/" \o withSep ELSE withSep

\* vite's normalizePath(id): path.posix.normalize of the id (the backslash
\* conversion applies to Windows only)
NormalizePath(id) == Normalize(id)

\* path.resolve(from, to): an absolute `to` discards `from`; a relative
\* `from` is taken under the working directory; the result is normalized
\* and carries no trailing slash.
Resolve(from, to) ==
  LET absFrom == IF StartsWith(from, "/") THEN from ELSE Cwd \o "/" \o from
      joined == IF StartsWith(to, "/") THEN to ELSE absFrom \o "/" \o to
  IN  "/" \o Join(NormSegs(Split(joined, "/"), <<>>, FALSE), "/")

\* path.dirname(p), for a path without trailing slash
Dirname(p) ==
  LET i == LastIndexOf(p, "/")
  IN  IF i = 0 THEN "."
      ELSE IF i = 1 THEN "/"
      ELSE SubSeq(p, 1, i - 1)

\* path.basename(p)
Basename(p) == SubSeq(p, LastIndexOf(p, "/") + 1, Len(p))

\* path.extname(p): from the last "." of the base name, "" when there is
\* none or when the base name starts with its only "."
Extname(p) ==
  LET base == Basename(p)
      i == LastIndexOf(base, ".")
  IN  IF i <= 1 \/ base = ".." THEN "" ELSE SubSeq(base, i, Len(base))

\* path.relative(from, to) for `to` below `from`
Relative(from, to) ==
  IF to = from THEN ""
  ELSE IF StartsWith(to, from \o "/") THEN SliceFrom(to, Len(from) + 1)
  ELSE to

\* fs.existsSync(p): a relative path is taken under the working directory
ExistsSync(p) == Resolve(Cwd, p) \in files

(***************************************************************************)
(* Alias resolver                                                          *)
(***************************************************************************)
\* new RegExp(`^${find}`).test(s): the pattern string is compiled as a
\* regular expression, so "." stands for any character; every other
\* character of the patterns used here is literal.
RegexTest(find, s) ==
  /\ Len(s) >= Len(find)
  /\ \A i \in 1..Len(find) : CharAt(find, i) = "." \/ CharAt(find, i) = CharAt(s, i)

\* s.replace(new RegExp(`^${find}`), replacement), when the pattern matches
RegexReplace(find, replacement, s) == replacement \o SliceFrom(s, Len(find))

\* the for loop over viteAliases from rule i on: the value returned from
\* inside the loop, NoValue when the loop ends without returning
RECURSIVE AliasLoop(_, _, _)
AliasLoop(aliases, i, filename) ==
  IF i > Len(aliases) THEN NoValue
  ELSE IF RegexTest(aliases[i].find, filename) THEN
         LET aliasedPath == RegexReplace(aliases[i].find, aliases[i].replacement, filename)
         IN  IF ExistsSync(aliasedPath) THEN aliasedPath
             ELSE IF ExistsSync(aliasedPath \o ".pug") THEN aliasedPath \o ".pug"
             ELSE AliasLoop(aliases, i + 1, filename)
  ELSE AliasLoop(aliases, i + 1, filename)

\* the `if (source)` block: the value it returns, NoValue when it falls through
RelativeBlock(filename, source) ==
  IF source = NoValue \/ source = "" THEN NoValue
  ELSE LET resolvedPath == Resolve(Dirname(source), filename)
       IN  IF ExistsSync(resolvedPath) THEN resolvedPath
           ELSE IF Extname(resolvedPath) # ".pug" /\ ExistsSync(resolvedPath \o ".pug")
             THEN resolvedPath \o ".pug"
           ELSE NoValue

\* the body of pugAliasResolver, for a given alias list
ResolveUnder(aliases, filename, source) ==
  LET viaAlias == AliasLoop(aliases, 1, filename)
      viaSource == RelativeBlock(filename, source)
  IN  IF viaAlias # NoValue THEN viaAlias
      ELSE IF viaSource # NoValue THEN viaSource
      ELSE filename

pugAliasResolver(filename, source) == ResolveUnder(viteAliases, filename, source)

(***************************************************************************)
(* Template rendering                                                      *)
(***************************************************************************)
\* The include/extends references written in each template of the modelled
\* project (the project's content, as test/index.spec.ts lays one out):
\* contact includes a partial by a relative path and a component through the
\* alias, team includes a component by a path written from the project root.
ContactIncludes == <<"../_p", "@/h">>

TeamIncludes == <<"src/h.pug">>

TemplateIncludes(template) ==
  IF template = "/r/pages/contact/index.pug" THEN ContactIncludes
  ELSE IF template = "/r/pages/team.pug" THEN TeamIncludes
  ELSE <<>>

\* The stylesheet links and the scripts with a src attribute that a
\* template's markup carries, in document order.
TemplateLinks(template) == IF template = "/r/index.pug" THEN <<"/style.css">> ELSE <<>>

TemplateScripts(template) == IF template = "/r/index.pug" THEN <<"/main.js">> ELSE <<>>

\* a dependency set that lives outside renderPug and is carried over from
\* the render call made just before
DependenciesCarriedOver(filename) ==
  LET refs == TemplateIncludes(filename)
  IN  (IF out.op = "render" /\ out.result.ok THEN out.result.dependencies ELSE {})
      \cup {NormalizePath(pugAliasResolver(refs[i], filename)) :
              i \in {j \in 1..Len(refs) : ExistsSync(pugAliasResolver(refs[j], filename))}}

\* lines 47-63: the set `dependencies`, created empty by each call, after
\* the lex hook of dependencyTrackingPlugin went over the template's
\* include/extends tokens
Dependencies(filename) ==
  LET refs == TemplateIncludes(filename)
  IN  {NormalizePath(pugAliasResolver(refs[i], filename)) :
         i \in {j \in 1..Len(refs) : ExistsSync(pugAliasResolver(refs[j], filename))}}

\* a merge in which the configured defaults override the per-call data
RenderDataDefaultsWin(data) == options.locals @@ data

\* line 67: { ...options.locals, ...data }
RenderData(data) == data @@ options.locals

\* lines 69-76: the object handed to pug's render, which pug reads both as
\* its options and as the template's locals; a later spread overrides an
\* earlier one
RenderOptions(filename, data) ==
  ("plugins" :> "resolve,lex")
    @@ RenderData(data)
    @@ options.pugOptions
    @@ ("filename" :> filename @@ "basedir" :> viteRoot @@ "pretty" :> "true")

\* renderPug(filename, data): fs.readFileSync throws for a missing template, and
\* pug's render throws when the path the resolver proposes for a reference
\* cannot be read.  The markup is abstracted to the template, the files
\* included into it, the locals it was rendered with and the stylesheet and
\* script references it carries.
renderPug(filename, data) ==
  LET refs == TemplateIncludes(filename)
      resolvedRefs == [i \in 1..Len(refs) |-> pugAliasResolver(refs[i], filename)]
  IN  IF ~ExistsSync(filename) THEN [ok |-> FALSE, error |-> "ENOENT", path |-> filename]
      ELSE IF \E i \in 1..Len(refs) : ~ExistsSync(resolvedRefs[i])
        THEN [ok |-> FALSE, error |-> "ENOENT", path |-> filename]
      ELSE [ok |-> TRUE,
            html |-> [template |-> filename, included |-> resolvedRefs,
                      locals |-> RenderOptions(filename, data),
                      links |-> TemplateLinks(filename),
                      scripts |-> TemplateScripts(filename)],
            dependencies |-> Dependencies(filename)]

(***************************************************************************)
(* Entry discovery: the config hook                                        *)
(***************************************************************************)
\* a Map.set that keeps the value of a key already present
MapSetKeepExisting(m, k, v) == m @@ (k :> v)

\* Map.prototype.set and object property assignment: the new value
\* replaces the one the key had
MapSet(m, k, v) == (k :> v) @@ m

MapGet(m, k) == IF k \in DOMAIN m THEN m[k] ELSE NoValue

\* The orders in which a directory listing can come back.
Listing ==
  <<"/r/index.pug", "/r/pages/_p.pug", "/r/pages/about.pug",
    "/r/pages/contact/index.pug", "/r/pages/index.pug", "/r/src/h.pug">>

RECURSIVE Reverse(_)
Reverse(seq) == IF seq = <<>> THEN <<>> ELSE Reverse(Tail(seq)) \o <<Head(seq)>>

GlobOrders == {Listing, Reverse(Listing)}

\* the pattern `${root}/pages/**/*.pug`
MatchesPagesPattern(root, f) ==
  StartsWith(f, root \o "/pages/") /\ EndsWith(f, ".pug")

\* an ignore pattern without the `**`: `${root}/_*.pug`
MatchesIgnorePatternRootOnly(root, f) ==
  Dirname(f) = root /\ StartsWith(Basename(f), "_") /\ EndsWith(f, ".pug")

\* the ignore pattern `${root}/**/_*.pug`
MatchesIgnorePattern(root, f) ==
  StartsWith(f, root \o "/") /\ StartsWith(Basename(f), "_") /\ EndsWith(f, ".pug")

\* globSync(pattern, {ignore, absolute: true}), listed in the given order
GlobSync(root, order) ==
  LET Keep(f) == f \in files /\ MatchesPagesPattern(root, f) /\ ~MatchesIgnorePattern(root, f)
  IN  SelectSeq(order, Keep)

\* an output key that gets the index leaf appended unconditionally
EntryKeyAlwaysAppend(root, pugPath) ==
  LET k0 == SliceDropLast(NormalizePath(Relative(root, NormalizePath(pugPath))), Len(".pug"))
      k1 == IF StartsWith(k0, "pages/") THEN SliceFrom(k0, Len("pages/")) ELSE k0
  IN  k1 \o "/index"

\* lines 101-113: the output key of a discovered template
EntryKey(root, pugPath) ==
  LET normalizedPugPath == NormalizePath(pugPath)
      k0 == SliceDropLast(NormalizePath(Relative(root, normalizedPugPath)), Len(".pug"))
      k1 == IF StartsWith(k0, "pages/") THEN SliceFrom(k0, Len("pages/")) ELSE k0
  IN  IF k1 # "index" /\ ~EndsWith(k1, "/index") THEN k1 \o "/index" ELSE k1

VirtualHtmlPath(root, entryKey) == NormalizePath(Resolve(root, entryKey \o ".html"))

\* a loop that fills rollupInput and leaves htmlToPugMap as it was
RECURSIVE DiscoverLoopInputOnly(_, _, _, _, _)
DiscoverLoopInputOnly(root, pugFiles, i, input, map) ==
  IF i > Len(pugFiles) THEN [input |-> input, map |-> map]
  ELSE DiscoverLoopInputOnly(root, pugFiles, i + 1,
                             MapSet(input, EntryKey(root, pugFiles[i]),
                                    VirtualHtmlPath(root, EntryKey(root, pugFiles[i]))),
                             map)

\* the for loop of config over allPugFiles[i..]: the pair of rollupInput and
\* htmlToPugMap after it
RECURSIVE DiscoverLoop(_, _, _, _, _)
DiscoverLoop(root, pugFiles, i, input, map) ==
  IF i > Len(pugFiles) THEN [input |-> input, map |-> map]
  ELSE LET entryKey == EntryKey(root, pugFiles[i])
           virtualHtmlPath == VirtualHtmlPath(root, entryKey)
       IN  DiscoverLoop(root, pugFiles, i + 1,
                        MapSet(input, entryKey, virtualHtmlPath),
                        MapSet(map, NormalizePath(virtualHtmlPath), NormalizePath(pugFiles[i])))

\* userConfig.root values the host passes
UserRoots == {""}

\* lines 86-96: allPugFiles
AllPugFiles(root, order) ==
  LET pageFiles == GlobSync(root, order)
      mainIndexFile == Resolve(root, "index.pug")
  IN  IF ExistsSync(mainIndexFile) THEN pageFiles \o <<mainIndexFile>> ELSE pageFiles

Config(userRoot, order) ==
  \E root \in {NormalizePath(Resolve(Cwd, userRoot))} :
    \E pugFiles \in {AllPugFiles(root, order)} :
      \E done \in {DiscoverLoop(root, pugFiles, 1, EmptyMap, htmlToPugMap)} :
        /\ allPugFiles' = pugFiles
        /\ rollupInput' = done.input
        /\ htmlToPugMap' = done.map
        /\ out' = [op |-> "config", input |-> done.input]
        /\ UNCHANGED <<files, viteRoot, viteAliases, options>>

(***************************************************************************)
(* configResolved                                                          *)
(***************************************************************************)
Root == "/r"

ConfigResolved(aliases) ==
  /\ viteRoot' = Root
  /\ viteAliases' = aliases
  /\ out' = [op |-> "configResolved"]
  /\ UNCHANGED <<files, htmlToPugMap, rollupInput, allPugFiles, options>>

(***************************************************************************)
(* Dev-request interceptor: the middleware of configureServer              *)
(***************************************************************************)
\* lines 159-160: req.url || '/', then the part before the first "?"
RequestPath(url) ==
  LET u == IF url = NoValue \/ url = "" THEN "/" ELSE url
  IN  Split(u, "?")[1]

\* line 161
IsPassThroughByExtension(requestPath) ==
  Includes(requestPath, ".") /\ ~EndsWith(requestPath, ".html")

\* lines 165-168
CleanPath(requestPath) ==
  LET cleanPath == SliceFrom(requestPath, 1)
  IN  IF cleanPath = "" \/ EndsWith(requestPath, "/")
        THEN (IF cleanPath # "" THEN cleanPath \o "index.html" ELSE "index.html")
      ELSE cleanPath

\* lines 170-179: the template the normalized path maps to, NoValue if none
LookupPugPath(cleanPath) ==
  LET first == MapGet(htmlToPugMap,
                      NormalizePath(Resolve(viteRoot,
                        IF EndsWith(cleanPath, ".html") THEN cleanPath
                        ELSE cleanPath \o "/index.html")))
  IN  IF first = NoValue /\ ~EndsWith(cleanPath, ".html")
        THEN MapGet(htmlToPugMap, NormalizePath(Resolve(viteRoot, cleanPath \o ".html")))
      ELSE first

\* server.transformIndexHtml(url, html, originalUrl): the host's transform
TransformIndexHtml(url, html) == [transformed |-> html, url |-> url]

\* What one invocation of the middleware does: how the host's transform
\* ended if it was called, the calls of next (with the argument kind), what
\* was written to the response, the messages sent on server.ws, the paths
\* added to server.watcher, and the line it ended at.
Outcome(url, transform, line, nextCalls, ended, body, watched) ==
  [op |-> "request", url |-> url, transform |-> transform, returnLine |-> line, next |-> nextCalls,
   ended |-> ended, statusCode |-> IF ended THEN 200 ELSE 0,
   contentType |-> IF ended THEN "text/html" ELSE NoValue,
   body |-> body, ws |-> <<>>, watched |-> watched,
   events |-> (IF line \in {161, 181} THEN <<>> ELSE <<"renderPug">>)
              \o (IF watched # {} THEN <<"watcher.add">> ELSE <<>>)
              \o (IF transform # "not called" THEN <<"transformIndexHtml">> ELSE <<>>)
              \o (IF ended THEN <<"statusCode", "setHeader", "end">> ELSE <<>>)
              \o nextCalls]

\* a handler that reports a request matching no template as an error
RespondMissAsError(url, transformOk, requestPath, pugPath, rendered) ==
  IF IsPassThroughByExtension(requestPath)
    THEN Outcome(url, "not called", 161, <<"next()">>, FALSE, NoValue, {})
  ELSE IF pugPath = NoValue
    THEN Outcome(url, "not called", 195, <<"next(e)">>, FALSE, NoValue, {})
  ELSE IF ~rendered.ok
    THEN Outcome(url, "not called", 195, <<"next(e)">>, FALSE, NoValue, {})
  ELSE IF ~transformOk
    THEN Outcome(url, "rejected", 195, <<"next(e)">>, FALSE, NoValue, rendered.dependencies)
  ELSE Outcome(url, "resolved", 193, <<>>, TRUE, TransformIndexHtml(url, rendered.html),
               rendered.dependencies)

\* a handler that writes the rendered markup without handing it to the
\* host's transform
RespondUntransformed(url, transformOk, requestPath, pugPath, rendered) ==
  IF IsPassThroughByExtension(requestPath)
    THEN Outcome(url, "not called", 161, <<"next()">>, FALSE, NoValue, {})
  ELSE IF pugPath = NoValue
    THEN Outcome(url, "not called", 181, <<"next()">>, FALSE, NoValue, {})
  ELSE IF ~rendered.ok
    THEN Outcome(url, "not called", 195, <<"next(e)">>, FALSE, NoValue, {})
  ELSE Outcome(url, "not called", 193, <<>>, TRUE, rendered.html, rendered.dependencies)

\* lines 161-196 for a request whose path, matched template and render
\* result are given
Respond(url, transformOk, requestPath, pugPath, rendered) ==
  IF IsPassThroughByExtension(requestPath)
    THEN Outcome(url, "not called", 161, <<"next()">>, FALSE, NoValue, {})
  ELSE IF pugPath = NoValue
    THEN Outcome(url, "not called", 181, <<"next()">>, FALSE, NoValue, {})
  ELSE IF ~rendered.ok
    THEN Outcome(url, "not called", 195, <<"next(e)">>, FALSE, NoValue, {})
  ELSE IF ~transformOk
    THEN Outcome(url, "rejected", 195, <<"next(e)">>, FALSE, NoValue, rendered.dependencies)
  ELSE Outcome(url, "resolved", 193, <<>>, TRUE, TransformIndexHtml(url, rendered.html),
               rendered.dependencies)

\* The middleware reads viteConfig.root, which configResolved sets before
\* the host installs it.  The template is looked up and rendered only for
\* a request that passes the extension check and matches a template.
DevRequest(url, transformOk) ==
  /\ viteRoot # NoValue
  /\ \E requestPath \in {RequestPath(url)} :
       \E pugPath \in {IF IsPassThroughByExtension(requestPath) THEN NoValue
                       ELSE LookupPugPath(CleanPath(requestPath))} :
         \E rendered \in {IF pugPath = NoValue THEN [ok |-> FALSE] ELSE renderPug(pugPath, EmptyMap)} :
           out' = Respond(url, transformOk, requestPath, pugPath, rendered)
  /\ UNCHANGED <<files, viteRoot, viteAliases, htmlToPugMap, rollupInput, allPugFiles, options>>

(***************************************************************************)
(* resolveId                                                               *)
(***************************************************************************)
resolveId(id) ==
  IF MapGet(htmlToPugMap, NormalizePath(id)) # NoValue THEN NormalizePath(id) ELSE NoValue

\* the host's call of the resolveId hook
ResolveId(id) ==
  /\ out' = [op |-> "resolveId", id |-> id, result |-> resolveId(id)]
  /\ UNCHANGED <<files, viteRoot, viteAliases, htmlToPugMap, rollupInput, allPugFiles, options>>

(***************************************************************************)
(* load                                                                    *)
(***************************************************************************)
\* a condition that leaves out the existence check
ShouldRenderIfMapped(pugPath) == pugPath # NoValue

\* line 143: pugPath && fs.existsSync(pugPath)
ShouldRender(pugPath) == pugPath # NoValue /\ pugPath # "" /\ ExistsSync(pugPath)

\* lines 143-154 for an id whose template and render result are given: how
\* the call completes, the value it returns, the paths given to
\* this.addWatchFile and the errors given to this.error (which raises the
\* error in the host, so the call does not return)
LoadOutcome(id, pugPath, rendered) ==
  IF ~ShouldRender(pugPath)
    THEN [op |-> "load", id |-> id, completion |-> "return null", html |-> NoValue,
          watchFiles |-> {}, errors |-> <<>>]
  ELSE IF rendered.ok
    THEN [op |-> "load", id |-> id, completion |-> "return html", html |-> rendered.html,
          watchFiles |-> rendered.dependencies, errors |-> <<>>]
  ELSE [op |-> "load", id |-> id, completion |-> "this.error", html |-> NoValue,
        watchFiles |-> {}, errors |-> <<rendered.error>>]

\* the host's call of the load hook; renderPug reads viteConfig.root, which
\* configResolved sets before any module is loaded
Load(id) ==
  /\ viteRoot # NoValue
  /\ \E pugPath \in {MapGet(htmlToPugMap, NormalizePath(id))} :
       \E rendered \in {IF ShouldRender(pugPath) THEN renderPug(pugPath, EmptyMap)
                        ELSE [ok |-> FALSE]} :
         out' = LoadOutcome(id, pugPath, rendered)
  /\ UNCHANGED <<files, viteRoot, viteAliases, htmlToPugMap, rollupInput, allPugFiles, options>>

(***************************************************************************)
(* handleHotUpdate                                                         *)
(***************************************************************************)
FullReload == [type |-> "full-reload", path |-> "*"]

\* a test for ".pug" anywhere in the file name
HotUpdateMessagesAnywhere(file) == IF Includes(file, ".pug") THEN <<FullReload>> ELSE <<>>

\* lines 201-209: the messages sent on server.ws for a changed file
HotUpdateMessages(file) == IF EndsWith(file, ".pug") THEN <<FullReload>> ELSE <<>>

\* the host's call of handleHotUpdate; the hook reads viteConfig.root,
\* which configResolved sets before the dev server watches files
handleHotUpdate(file) ==
  /\ viteRoot # NoValue
  /\ out' = [op |-> "hotUpdate", file |-> file, ws |-> HotUpdateMessages(file),
             logged |-> IF EndsWith(file, ".pug")
                          THEN <<Normalize(Relative(viteRoot, file))>> ELSE <<>>]
  /\ UNCHANGED <<files, viteRoot, viteAliases, htmlToPugMap, rollupInput, allPugFiles, options>>

(***************************************************************************)
(* Hooks the plugin object does not define                                 *)
(***************************************************************************)
\* The object returned by viteConvertPugInHtml defines these hooks and no
\* other; the host skips a hook that a plugin does not define.
PluginHooks ==
  {"config", "configResolved", "resolveId", "load", "configureServer", "handleHotUpdate"}

\* the host's build-start notification: the assets handed to this.emitFile
BuildStart(watchMode) ==
  /\ "buildStart" \notin PluginHooks
  /\ out' = [op |-> "buildStart", watchMode |-> watchMode, emitted |-> <<>>]
  /\ UNCHANGED <<files, viteRoot, viteAliases, htmlToPugMap, rollupInput, allPugFiles, options>>

\* the host's module-transform notification for the module id: without a
\* transform hook the module's code stays as it is (no result)
Transform(id) ==
  /\ "transform" \notin PluginHooks
  /\ out' = [op |-> "transform", id |-> id, result |-> NoValue]
  /\ UNCHANGED <<files, viteRoot, viteAliases, htmlToPugMap, rollupInput, allPugFiles, options>>

(***************************************************************************)
(* A direct call of renderPug                                              *)
(***************************************************************************)
\* `follows` and `before` tell whether the call made just before was a
\* successful render too, and the dependency set that call returned
CallRender(filename, data) ==
  /\ viteRoot # NoValue
  /\ \E result \in {renderPug(filename, data)} :
       \E follows \in {out.op = "render" /\ out.result.ok} :
         out' = [op |-> "render", filename |-> filename, data |-> data, result |-> result,
                 follows |-> follows,
                 before |-> IF follows THEN out.result.dependencies ELSE {}]
  /\ UNCHANGED <<files, viteRoot, viteAliases, htmlToPugMap, rollupInput, allPugFiles, options>>

(***************************************************************************)
(* A direct call of the alias resolver                                     *)
(***************************************************************************)
CallResolver(filename, source) ==
  /\ out' = [op |-> "resolve", filename |-> filename, source |-> source,
             result |-> pugAliasResolver(filename, source)]
  /\ UNCHANGED <<files, viteRoot, viteAliases, htmlToPugMap, rollupInput, allPugFiles, options>>

(***************************************************************************)
(* The project's files change between hook calls                           *)
(***************************************************************************)
WriteFile(f) ==
  /\ f \notin files
  /\ files' = files \cup {f}
  /\ out' = [op |-> "write", file |-> f]
  /\ UNCHANGED <<viteRoot, viteAliases, htmlToPugMap, rollupInput, allPugFiles, options>>

RemoveFile(f) ==
  /\ f \in files
  /\ files' = files \ {f}
  /\ out' = [op |-> "remove", file |-> f]
  /\ UNCHANGED <<viteRoot, viteAliases, htmlToPugMap, rollupInput, allPugFiles, options>>

(***************************************************************************)
(* Specifications                                                          *)
(***************************************************************************)
\* The templates of the modelled project: the root template, three pages
\* (pages/index.pug derives the same output key as the root template), a
\* partial and a component outside pages.
ProjectFiles ==
  {"/r/index.pug", "/r/pages/index.pug", "/r/pages/about.pug",
   "/r/pages/contact/index.pug", "/r/pages/_p.pug", "/r/src/h.pug"}

\* resolve.alias of the modelled project
ProjectAliases == <<[find |-> "@", replacement |-> "/r/src"]>>

Urls ==
  {"", "/", "/index.html", "/about", "/about.html", "/about/", "/about?v=1.2",
   "/contact", "/style.css", "/v1.2/about", "/missing"}

\* viteConvertPugInHtml() called without options
NoOptions == [locals |-> EmptyMap, pugOptions |-> EmptyMap, replacement |-> EmptyMap]

\* the state after viteConvertPugInHtml(options) returned
Constructed ==
  /\ viteRoot = NoValue
  /\ viteAliases = <<>>
  /\ htmlToPugMap = EmptyMap
  /\ rollupInput = NoValue
  /\ allPugFiles = NoValue
  /\ out = [op |-> "construct"]

\* Discovery while the project's files come and go: config runs any number
\* of times on one plugin instance.
InitDiscovery ==
  /\ files \in SUBSET ProjectFiles
  /\ options = NoOptions
  /\ Constructed

\* the templates that are created and deleted while the plugin instance lives
ChangingFiles == {"/r/index.pug", "/r/pages/about.pug", "/r/pages/index.pug"}

NextDiscovery ==
  \/ \E userRoot \in UserRoots, order \in GlobOrders : Config(userRoot, order)
  \/ \E f \in ChangingFiles : WriteFile(f)
  \/ \E f \in ChangingFiles : RemoveFile(f)

SpecDiscovery == InitDiscovery /\ [][NextDiscovery]_vars

\* A dev-server session on a project with the root template and the pages
\* about and contact: the host calls config and configResolved, then serves
\* requests; templates may be deleted while it runs.
OptionalFiles == {"/r/pages/index.pug", "/r/pages/_p.pug", "/r/src/h.pug"}

InitServer ==
  /\ \E absent \in SUBSET OptionalFiles : files = ProjectFiles \ absent
  /\ options = NoOptions
  /\ Constructed

\* the files the host's watcher reports as changed
WatchedFiles ==
  {"/r/pages/about.pug", "/r/pages/_p.pug", "/r/main.js", "/r/a.pug.bak", "/r/notes"}

NextServer ==
  \/ ConfigResolved(ProjectAliases)
  \/ \E url \in Urls, transformOk \in BOOLEAN : DevRequest(url, transformOk)
  \/ \E file \in WatchedFiles : handleHotUpdate(file)
  \/ \E f \in ChangingFiles : RemoveFile(f)
  \/ \E userRoot \in UserRoots, order \in GlobOrders : Config(userRoot, order)

SpecServer == InitServer /\ [][NextServer]_vars

\* The resolver as a function of its inputs: alias lists, references,
\* referencing documents and files to resolve among.
ResolverFiles ==
  {"/r/cmp/h.pug", "/r/cmp/h.pug.pug", "/r/src/c/h.pug", "/r/pages/c/h.pug",
   "/r/c/h.pug", "/r/lib/x.pug"}

AliasLists ==
  {<<>>,
   <<[find |-> "@", replacement |-> "/r/src"]>>,
   <<[find |-> "@/c", replacement |-> "/r/cmp"], [find |-> "@", replacement |-> "/r/src"]>>,
   <<[find |-> "a.b", replacement |-> "/r/lib"]>>}

References == {"@/c/h", "@/c/h.pug", "c/h", "c/h.pug", "../src/c/h.pug", "a.b/x", "a-b/x"}

Sources == {NoValue, "/r/pages/about.pug"}

InitResolver ==
  /\ files \in SUBSET ResolverFiles
  /\ options = NoOptions
  /\ Constructed

NextResolver ==
  \/ \E aliases \in AliasLists : ConfigResolved(aliases)
  \/ \E filename \in References, source \in Sources : CallResolver(filename, source)

SpecResolver == InitResolver /\ [][NextResolver]_vars

\* renderPug as a function of the template, the per-call data, the
\* configured options, the alias rules and the files on disk.
RenderFiles ==
  {"/r/pages/about.pug", "/r/pages/contact/index.pug", "/r/pages/team.pug",
   "/r/pages/_p.pug", "/r/src/h.pug"}

Templates == {"/r/pages/about.pug", "/r/pages/contact/index.pug", "/r/pages/team.pug"}

OptionChoices ==
  {NoOptions,
   [locals |-> [title |-> "Site", year |-> "2024"],
    pugOptions |-> [doctype |-> "html"], replacement |-> EmptyMap]}

DataChoices == {EmptyMap, [title |-> "About"]}

InitRender ==
  /\ files \in SUBSET RenderFiles
  /\ options \in OptionChoices
  /\ Constructed

NextRender ==
  \/ \E aliases \in {<<>>, ProjectAliases} : ConfigResolved(aliases)
  \/ \E filename \in Templates, data \in DataChoices : CallRender(filename, data)

SpecRender == InitRender /\ [][NextRender]_vars

\* A production build: the host calls config and configResolved, notifies
\* the build start, resolves, loads and transforms modules; templates may
\* be deleted meanwhile.
ReplacementOptions ==
  [locals |-> EmptyMap, pugOptions |-> EmptyMap,
   replacement |-> [css |-> "assets/main.css", script |-> "assets/main.js"]]

\* ids the host resolves and loads: virtual documents (one written with a
\* ".." segment) and a script
ModuleIds ==
  {"/r/index.html", "/r/about/../about/index.html", "/r/contact/index.html", "/r/main.js"}

\* ids of modules the host hands to transform hooks
TransformIds == {"/r/pages/about.pug", "/r/main.js"}

InitBuild ==
  /\ \E absent \in SUBSET OptionalFiles : files = ProjectFiles \ absent
  /\ options \in {NoOptions, ReplacementOptions}
  /\ Constructed

NextBuild ==
  \/ ConfigResolved(ProjectAliases)
  \/ \E watchMode \in BOOLEAN : BuildStart(watchMode)
  \/ \E id \in ModuleIds : ResolveId(id)
  \/ \E id \in ModuleIds : Load(id)
  \/ \E id \in TransformIds : Transform(id)
  \/ \E f \in ChangingFiles : RemoveFile(f)
  \/ \E userRoot \in UserRoots, order \in GlobOrders : Config(userRoot, order)

SpecBuild == InitBuild /\ [][NextBuild]_vars

(***************************************************************************)
(* Properties of the alias resolver (checked under SpecResolver)           *)
(***************************************************************************)
\* the index of the first alias rule whose pattern matches, 0 if none
FirstMatch(aliases, filename) ==
  LET hits == {i \in 1..Len(aliases) : RegexTest(aliases[i].find, filename)}
  IN  IF hits = {} THEN 0 ELSE CHOOSE i \in hits : \A j \in hits : i <= j

Rewritten(aliases, i, filename) ==
  RegexReplace(aliases[i].find, aliases[i].replacement, filename)

ResolverCalled == out.op = "resolve"

\* C1: whenever some alias rule matches the reference, the resolver's result
\* is the reference rewritten by the FIRST matching rule (as it stands or, as
\* the extension rule allows, with ".pug" appended), whether or not the
\* rewritten target exists: no later rule and no relative resolution is used.
C1_FirstMatchWins ==
  (ResolverCalled /\ FirstMatch(viteAliases, out.filename) # 0) =>
    LET candidate == Rewritten(viteAliases, FirstMatch(viteAliases, out.filename), out.filename)
    IN  out.result \in {candidate, candidate \o ".pug"}

\* C2: when no alias rule matches, the result is the reference resolved
\* against the directory of the referencing document, or against the
\* configured base directory when no referencing document is given (as it
\* stands or with ".pug" appended), and it is the result the resolver gives
\* with no alias rules at all.
C2_RelativeFallback ==
  (ResolverCalled /\ FirstMatch(viteAliases, out.filename) = 0) =>
    LET base == IF out.source = NoValue THEN Root ELSE Dirname(out.source)
        candidate == Resolve(base, out.filename)
    IN  /\ out.result \in {candidate, candidate \o ".pug"}
        /\ out.result = ResolveUnder(<<>>, out.filename, out.source)

\* the candidate paths a call obtains: the rewriting by every matching rule
\* and, with a referencing document, the relative resolution
Candidates(aliases, filename, source) ==
  {Rewritten(aliases, i, filename) :
     i \in {j \in 1..Len(aliases) : RegexTest(aliases[j].find, filename)}}
  \cup (IF source = NoValue THEN {} ELSE {Resolve(Dirname(source), filename)})

\* what the extension rule prescribes for one candidate
CandidateAnswer(c) ==
  IF ExistsSync(c) THEN c
  ELSE IF Extname(c) # ".pug" /\ ExistsSync(c \o ".pug") THEN c \o ".pug"
  ELSE c

\* C3: the result is what the extension rule prescribes for a candidate the
\* call obtained: the candidate itself when it exists, the candidate with
\* ".pug" appended only when the candidate does not exist, lacks ".pug" and
\* the extended path exists, and the unresolved candidate otherwise.
C3_CandidateRule ==
  (ResolverCalled /\ Candidates(viteAliases, out.filename, out.source) # {}) =>
    \E c \in Candidates(viteAliases, out.filename, out.source) : out.result = CandidateAnswer(c)

(***************************************************************************)
(* Properties of the dev-request interceptor (checked under SpecServer)    *)
(***************************************************************************)
Range(seq) == {seq[i] : i \in 1..Len(seq)}

RequestHandled == out.op = "request"

\* the last config run discovered the template f and f still exists
Discovered(f) == allPugFiles # NoValue /\ f \in Range(allPugFiles) /\ f \in files

\* the template the handled request's path maps to, NoValue if none
MatchedTemplate == LookupPugPath(CleanPath(RequestPath(out.url)))

\* C4: with the root template and pages/about.pug discovered, the requests
\* "/", "/about" and "/about.html" are each rendered and answered with the
\* page's markup (the host's transform succeeding), "/" from the root
\* template and the other two from pages/about.pug, and next is not called.
C4_PageRequestsServed ==
  (/\ RequestHandled
   /\ out.url \in {"/", "/about", "/about.html"}
   /\ Discovered("/r/index.pug") /\ Discovered("/r/pages/about.pug")
   /\ out.transform # "rejected") =>
    /\ out.ended /\ out.next = <<>>
    /\ out.body.transformed.template =
         (IF out.url = "/" THEN "/r/index.pug" ELSE "/r/pages/about.pug")

\* C5: when the template matched by a request fails to render, the
\* interceptor sends a message of kind "error" naming the template on the
\* live-reload channel, calls next with the error, and writes no response.
C5_RenderFailureReported ==
  (/\ RequestHandled
   /\ ~IsPassThroughByExtension(RequestPath(out.url))
   /\ MatchedTemplate # NoValue
   /\ ~renderPug(MatchedTemplate, EmptyMap).ok) =>
    /\ \E i \in 1..Len(out.ws) : out.ws[i].type = "error" /\ out.ws[i].file = MatchedTemplate
    /\ out.next = <<"next(e)">>
    /\ ~out.ended

\* the final segment of a request path has a file extension other than
\* the markup document extension
FinalSegmentHasOtherExtension(requestPath) == Extname(requestPath) \notin {"", ".html"}

\* C6: a request ends at the extension check exactly when the final segment
\* of its path (query string stripped) has a file extension other than
\* ".html"; such a request is passed to next and is neither rendered nor
\* answered.
C6_ExtensionPassThrough ==
  RequestHandled =>
    /\ (out.returnLine = 161) <=> FinalSegmentHasOtherExtension(RequestPath(out.url))
    /\ (out.returnLine = 161) => (out.next = <<"next()">> /\ ~out.ended /\ out.body = NoValue)

(***************************************************************************)
(* Properties of entry discovery (checked under SpecDiscovery)             *)
(***************************************************************************)
ConfigRan == out.op = "config"

\* a template that convention makes a page: below pages/ with a file name
\* that does not start with an underscore, or the root-level index template
IsPageTemplate(f) ==
  \/ f = "/r/index.pug"
  \/ /\ StartsWith(f, "/r/pages/") /\ EndsWith(f, ".pug")
     /\ CharAt(Basename(f), 1) # "_"

\* C7: a root whose page templates are index.pug, pages/about.pug and
\* pages/contact/index.pug yields exactly the output keys index, about/index
\* and contact/index, each mapped from <root>/<key>.html to its template.
C7_OutputKeys ==
  (/\ ConfigRan
   /\ {f \in files : IsPageTemplate(f)} =
        {"/r/index.pug", "/r/pages/about.pug", "/r/pages/contact/index.pug"}) =>
    /\ DOMAIN rollupInput = {"index", "about/index", "contact/index"}
    /\ rollupInput["index"] = "/r/index.html"
    /\ rollupInput["about/index"] = "/r/about/index.html"
    /\ rollupInput["contact/index"] = "/r/contact/index.html"
    /\ MapGet(htmlToPugMap, "/r/index.html") = "/r/index.pug"
    /\ MapGet(htmlToPugMap, "/r/about/index.html") = "/r/pages/about.pug"
    /\ MapGet(htmlToPugMap, "/r/contact/index.html") = "/r/pages/contact/index.pug"

C7_Witness ==
  /\ ConfigRan
  /\ {f \in files : IsPageTemplate(f)} =
       {"/r/index.pug", "/r/pages/about.pug", "/r/pages/contact/index.pug"}
  /\ "/r/pages/_p.pug" \in files

C9_KeysUnique ==
  ConfigRan =>
    /\ \A k \in DOMAIN rollupInput : k # ""
    /\ \A i, j \in 1..Len(allPugFiles) :
         i # j => EntryKey(Root, allPugFiles[i]) # EntryKey(Root, allPugFiles[j])

\* the position of the last discovered template that derives the key k
LastWithKey(k) ==
  CHOOSE i \in 1..Len(allPugFiles) :
    /\ EntryKey(Root, allPugFiles[i]) = k
    /\ \A j \in 1..Len(allPugFiles) : EntryKey(Root, allPugFiles[j]) = k => j <= i

\* C9 amended: after a config run the output keys are exactly the keys the
\* discovered templates derive, each non-empty; two templates may derive the
\* same key, and then the virtual document map holds for that key the one
\* template processed last.
C9_LaterOverwrites ==
  ConfigRan =>
    /\ DOMAIN rollupInput = {EntryKey(Root, f) : f \in Range(allPugFiles)}
    /\ \A k \in DOMAIN rollupInput :
         /\ k # ""
         /\ MapGet(htmlToPugMap, rollupInput[k]) = allPugFiles[LastWithKey(k)]

C9_Witness ==
  /\ ConfigRan
  /\ {"/r/index.pug", "/r/pages/index.pug"} \subseteq Range(allPugFiles)
  /\ MapGet(htmlToPugMap, "/r/index.html") = "/r/index.pug"

\* C10: after any sequence of config runs the virtual document map holds
\* exactly the entries of the most recent scan, so an id is resolvable only
\* if the most recent scan derived it.
C10_MapRebuiltFresh ==
  ConfigRan =>
    /\ DOMAIN htmlToPugMap = {rollupInput[k] : k \in DOMAIN rollupInput}
    /\ \A id \in DOMAIN htmlToPugMap :
         resolveId(id) # NoValue => htmlToPugMap[id] \in Range(allPugFiles)

(***************************************************************************)
(* Properties of the change notifier and of a served request (checked      *)
(* under SpecServer)                                                       *)
(***************************************************************************)
HotUpdateCalled == out.op = "hotUpdate"

\* C11: on a change notification exactly one message is sent on the
\* live-reload channel, of type full-reload with path "*", when the changed
\* file has the extension ".pug", and no message is sent when it has any
\* other extension or none.
C11_ReloadOnTemplateChange ==
  HotUpdateCalled =>
    /\ Extname(out.file) = ".pug" => out.ws = <<[type |-> "full-reload", path |-> "*"]>>
    /\ Extname(out.file) # ".pug" => out.ws = <<>>

C11_Witness ==
  /\ HotUpdateCalled
  /\ out.file = "/r/pages/_p.pug"
  /\ Len(out.ws) = 1

\* the position of the event e among the events of the handled request, 0
\* when it did not occur
EventAt(e) ==
  LET hits == {i \in 1..Len(out.events) : out.events[i] = e}
  IN  IF hits = {} THEN 0 ELSE CHOOSE i \in hits : \A j \in hits : i <= j

\* C12: for a request whose matched template renders, every path of the
\* render's dependency set is added to the watcher, the markup is handed to
\* the host's transform, and a response is written exactly when the
\* transform completed: after it, with status 200, content type text/html
\* and the transform's output as body, and without a call of next.
C12_RenderedThenTransformed ==
  (/\ RequestHandled
   /\ ~IsPassThroughByExtension(RequestPath(out.url))
   /\ MatchedTemplate # NoValue
   /\ renderPug(MatchedTemplate, EmptyMap).ok) =>
    LET r == renderPug(MatchedTemplate, EmptyMap)
    IN  /\ out.watched = r.dependencies
        /\ (MatchedTemplate = "/r/pages/contact/index.pug" =>
              out.watched = {"/r/pages/_p.pug", "/r/src/h.pug"})
        /\ (r.dependencies # {} =>
              0 < EventAt("watcher.add") /\ EventAt("watcher.add") < EventAt("transformIndexHtml"))
        /\ out.transform # "not called"
        /\ out.ended <=> (out.transform = "resolved")
        /\ out.ended =>
             /\ 0 < EventAt("transformIndexHtml")
             /\ EventAt("transformIndexHtml") < EventAt("statusCode")
             /\ EventAt("statusCode") < EventAt("setHeader")
             /\ EventAt("setHeader") < EventAt("end")
             /\ out.statusCode = 200
             /\ out.contentType = "text/html"
             /\ out.body = [transformed |-> r.html, url |-> out.url]
             /\ out.next = <<>>

C12_Witness ==
  /\ RequestHandled
  /\ out.url = "/contact"
  /\ out.ended
  /\ out.watched = {"/r/pages/_p.pug", "/r/src/h.pug"}

(***************************************************************************)
(* Properties of renderPug (checked under SpecRender)                      *)
(***************************************************************************)
RenderCalled == out.op = "render"

\* the paths the alias resolver gives for the references of a template
ResolvedReferences(template) ==
  {pugAliasResolver(TemplateIncludes(template)[i], template) :
     i \in 1..Len(TemplateIncludes(template))}

IsAbsolute(p) == StartsWith(p, "/")

\* C13: the dependency set a render returns holds exactly the normalized
\* resolved paths of the template's references whose resolved path exists,
\* one entry per such target, each an absolute normalized path; it is empty
\* for a template without references.
C13_DependencySetExact ==
  (RenderCalled /\ out.result.ok) =>
    LET targets == {p \in ResolvedReferences(out.filename) : ExistsSync(p)}
        deps == out.result.dependencies
    IN  /\ deps = {NormalizePath(p) : p \in targets}
        /\ Cardinality(deps) = Cardinality(targets)
        /\ \A d \in deps : IsAbsolute(d) /\ NormalizePath(d) = d
        /\ TemplateIncludes(out.filename) = <<>> => deps = {}

\* C14: the dependency set a render returns holds only paths that the
\* references of the rendered template resolve to in that call, whatever an
\* earlier render returned.
C14_FreshDependencySet ==
  (RenderCalled /\ out.result.ok) =>
    out.result.dependencies \subseteq
      {NormalizePath(p) : p \in ResolvedReferences(out.filename)}

\* a render right after a render that returned a path this one does not
C14_Witness ==
  /\ RenderCalled
  /\ out.follows
  /\ out.result.ok
  /\ out.before \ out.result.dependencies # {}

\* the keys pug reads as its options
EngineOptionKeys == {"filename", "basedir", "pretty", "plugins"} \cup DOMAIN options.pugOptions

\* C15: the locals a template is rendered with hold, for every key of the
\* configured default data or of the per-call data, the per-call value if
\* there is one and the default otherwise, and no data key besides these.
C15_DataMerge ==
  (RenderCalled /\ out.result.ok) =>
    LET seen == out.result.html.locals
        dataKeys == DOMAIN out.data
        defaultKeys == DOMAIN options.locals
    IN  /\ \A k \in dataKeys \cup defaultKeys :
             /\ k \in DOMAIN seen
             /\ seen[k] = (IF k \in dataKeys THEN out.data[k] ELSE options.locals[k])
        /\ DOMAIN seen \ EngineOptionKeys = dataKeys \cup defaultKeys

C15_Witness ==
  /\ RenderCalled
  /\ out.result.ok
  /\ "title" \in DOMAIN out.data
  /\ "title" \in DOMAIN options.locals
  /\ out.result.html.locals["title"] = "About"
  /\ out.result.html.locals["year"] = "2024"

(***************************************************************************)
(* Properties of a production build (checked under SpecBuild)              *)
(***************************************************************************)
BuildStarted == out.op = "buildStart"

\* the page entries: the output keys the config run returned
PageEntries == IF allPugFiles = NoValue THEN {} ELSE DOMAIN rollupInput

\* the template of the page entry with output key k
EntryTemplate(k) == MapGet(htmlToPugMap, rollupInput[k])

\* C16: at the start of a one-shot build exactly one asset per page entry is
\* handed to the host, named by the entry's output key followed by ".html";
\* at the start of a watch-mode build no asset is handed over.
C16_OneAssetPerEntry ==
  BuildStarted =>
    IF out.watchMode THEN out.emitted = <<>>
    ELSE /\ Len(out.emitted) = Cardinality(PageEntries)
         /\ {out.emitted[i].fileName : i \in 1..Len(out.emitted)} =
              {k \o ".html" : k \in PageEntries}

\* a sequence of references with its first one replaced
ReplaceFirst(refs, value) == IF refs = <<>> THEN refs ELSE <<value>> \o Tail(refs)

\* C17: with replacement options css and script configured, the markup
\* emitted for a page entry at the start of a one-shot build is the rendered
\* markup with the first stylesheet link set to the css value and the first
\* script source set to the script value, and nothing else changed.
C17_ReplacementsApplied ==
  (/\ BuildStarted
   /\ ~out.watchMode
   /\ DOMAIN options.replacement = {"css", "script"}) =>
    \A k \in PageEntries :
      LET r == renderPug(EntryTemplate(k), EmptyMap)
      IN  r.ok =>
            \E i \in 1..Len(out.emitted) :
              /\ out.emitted[i].fileName = k \o ".html"
              /\ out.emitted[i].source =
                   [r.html EXCEPT !.links = ReplaceFirst(@, options.replacement["css"]),
                                  !.scripts = ReplaceFirst(@, options.replacement["script"])]

\* C18: the module-transform hook turns a module whose id has the extension
\* ".pug" into a module that exports the rendered markup as a string by
\* default, and gives no result for any other module id.
C18_TemplateModuleTransformed ==
  out.op = "transform" =>
    IF Extname(out.id) = ".pug"
      THEN /\ out.result # NoValue
           /\ out.result.code = <<"export default", renderPug(out.id, EmptyMap).html>>
    ELSE out.result = NoValue

(***************************************************************************)
(* String alias patterns (checked under SpecResolver)                      *)
(***************************************************************************)
\* the alias rules whose pattern string the reference starts with
LiteralPrefixRules(aliases, filename) ==
  {i \in 1..Len(aliases) : StartsWith(filename, aliases[i].find)}

\* C19: a string pattern matches exactly the references that start with it,
\* character for character, and only that prefix is replaced: the
\* resolver's result is either the result it gives without any alias rule,
\* or the reference with the pattern of a rule it literally starts with
\* replaced by that rule's replacement (as it stands or with ".pug" appended).
C19_LiteralPrefix ==
  ResolverCalled =>
    \/ out.result = ResolveUnder(<<>>, out.filename, out.source)
    \/ \E i \in LiteralPrefixRules(viteAliases, out.filename) :
         LET rewritten == viteAliases[i].replacement
                            \o SliceFrom(out.filename, Len(viteAliases[i].find))
         IN  out.result \in {rewritten, rewritten \o ".pug"}

(***************************************************************************)
(* Module resolution and load (checked under SpecBuild)                    *)
(***************************************************************************)
\* C20: resolveId returns the normalized id exactly when the virtual
\* document map has it, and nothing otherwise; load returns nothing for an
\* id the map does not have or whose template is gone from disk, and
\* otherwise renders the template: on success it returns the markup and
\* registers exactly the render's dependency set as watched files, on
\* failure it reports the error to the host and returns nothing.
C20_ResolveAndLoad ==
  /\ out.op = "resolveId" =>
       out.result = (IF NormalizePath(out.id) \in DOMAIN htmlToPugMap
                       THEN NormalizePath(out.id) ELSE NoValue)
  /\ out.op = "load" =>
       LET pugPath == MapGet(htmlToPugMap, NormalizePath(out.id))
       IN  IF pugPath = NoValue \/ pugPath \notin files
             THEN out.completion = "return null" /\ out.watchFiles = {} /\ out.errors = <<>>
           ELSE LET r == renderPug(pugPath, EmptyMap)
                IN  IF r.ok
                      THEN /\ out.completion = "return html"
                           /\ out.html = r.html
                           /\ out.watchFiles = r.dependencies
                           /\ (pugPath = "/r/pages/contact/index.pug" =>
                                 out.watchFiles = {"/r/pages/_p.pug", "/r/src/h.pug"})
                           /\ out.errors = <<>>
                    ELSE /\ out.completion = "this.error"
                         /\ Len(out.errors) = 1
                         /\ out.watchFiles = {}

\* a load of a virtual document whose template was deleted after discovery
C20_Witness ==
  /\ out.op = "load"
  /\ MapGet(htmlToPugMap, NormalizePath(out.id)) # NoValue
  /\ MapGet(htmlToPugMap, NormalizePath(out.id)) \notin files
  /\ out.completion = "return null"

(***************************************************************************)
(* One outcome per request (checked under SpecServer)                      *)
(***************************************************************************)
\* the handled request is not a page request, or matches no virtual document
NotAPage ==
  \/ IsPassThroughByExtension(RequestPath(out.url))
  \/ MatchedTemplate = NoValue

\* C21: a handled request has exactly one outcome, occurring once: next is
\* called once without argument, exactly for a request that is passed
\* through by its extension or matches no virtual document; or next is
\* called once with an error, and then the render or the host's transform
\* failed; or a response is written, once and without any call of next.
C21_OneOutcome ==
  RequestHandled =>
    LET passed == out.next = <<"next()">> /\ ~out.ended
        failed == out.next = <<"next(e)">> /\ ~out.ended
        served == out.next = <<>> /\ out.ended /\ EventAt("end") = Len(out.events)
    IN  /\ passed \/ failed \/ served
        /\ Cardinality({o \in {"passed", "failed", "served"} :
                          \/ o = "passed" /\ passed
                          \/ o = "failed" /\ failed
                          \/ o = "served" /\ served}) = 1
        /\ Cardinality({i \in 1..Len(out.events) : out.events[i] = "end"}) <= 1
        /\ passed <=> NotAPage
        /\ failed =>
             \/ ~renderPug(MatchedTemplate, EmptyMap).ok
             \/ out.transform = "rejected"

\* a request matching no virtual document after discovery ran
C21_Witness ==
  /\ RequestHandled
  /\ out.url = "/missing"
  /\ allPugFiles # NoValue
  /\ out.next = <<"next()">>

(***************************************************************************)
(* Build inputs are backed by the map (checked under SpecDiscovery)        *)
(***************************************************************************)
\* C22: after a config run, every output key of the returned input table
\* has the normalized path <root>/<key>.html as its value, that path is a
\* key of the virtual document map, and resolveId returns it.
C22_InputsBacked ==
  ConfigRan =>
    \A k \in DOMAIN rollupInput :
      /\ rollupInput[k] = NormalizePath(Root \o "/" \o k \o ".html")
      /\ rollupInput[k] \in DOMAIN htmlToPugMap
      /\ resolveId(rollupInput[k]) # NoValue
      /\ resolveId(rollupInput[k]) = rollupInput[k]

C22_Witness ==
  /\ ConfigRan
  /\ {"index", "about/index"} \subseteq DOMAIN rollupInput
  /\ resolveId(rollupInput["about/index"]) = "/r/about/index.html"

====
